---- MODULE Spec2Model ----
(***************************************************************************)
(* Model of the Bugzilla MCP server tools of src/bugzilla_api.py:          *)
(* get_search_options (the on-disk search-options cache), query_bugs,      *)
(* get_bug and convert_bug_to_dict.  The tracker adapter (bzapi) and the   *)
(* file system are the environment.                                        *)
(***************************************************************************)
EXTENDS Integers, Sequences, FiniteSets, TLC

VARIABLES
    loggedIn,   \* bzapi.logged_in
    tracker,    \* what the tracker would answer: [products, bugfields]
    cache,      \* the file ./.bugzilla.cache.json
    last,       \* the latest get_search_options call
    prev,       \* the get_search_options call before it
    req,        \* the get_bug / query_bugs call being dispatched
    resp        \* what that call did

vars == <<loggedIn, tracker, cache, last, prev, req, resp>>

-----------------------------------------------------------------------------
(* Bounds of the model.                                                    *)

MaxProducts == 2
MaxFields == 2
MaxBugs == 2

-----------------------------------------------------------------------------
(* Python values.                                                          *)

\* A dict is a function from its keys; {} is the function of no key.
EmptyDict == [k \in {} |-> k]

DictSet(d, k, v) == [x \in DOMAIN d \cup {k} |-> IF x = k THEN v ELSE d[x]]

DictGet(d, k, default) == IF k \in DOMAIN d THEN d[k] ELSE default

DictLen(d) == Cardinality(DOMAIN d)

\* An optional string argument: None or a str.
None == [t |-> "None"]

Str(s) == [t |-> "str", v |-> s]

\* Python truthiness of an optional string: None and "" are falsy.
Truthy(x) == x.t = "str" /\ x.v # ""

\* a or b
PyOr(a, b) == IF Truthy(a) THEN a ELSE b

Min(a, b) == IF a <= b THEN a ELSE b

\* How a call of a tool ends.
Return(v) == [kind |-> "return", value |-> v]

Raise(exc, msg) == [kind |-> "raise", exc |-> exc, msg |-> msg]

Returned(o) == o.kind = "return"

Raised(o) == o.kind = "raise"

\* sep.join(parts)
RECURSIVE Join(_, _)
Join(sep, parts) ==
    IF Len(parts) = 0 THEN ""
    ELSE IF Len(parts) = 1 THEN parts[1]
    ELSE parts[1] \o sep \o Join(sep, Tail(parts))

\* [v['name'] for v in items]
RECURSIVE Names(_)
Names(items) ==
    IF Len(items) = 0 THEN <<>>
    ELSE <<items[1].name>> \o Names(Tail(items))

-----------------------------------------------------------------------------
(* The cache file.  A file's text is either raw text or the JSON document  *)
(* of a value.                                                             *)

BUGZILLA_CACHE == ".bugzilla.cache.json"

Absent == [exists |-> FALSE]

File(content) == [exists |-> TRUE, path |-> BUGZILLA_CACHE, content |-> content]

Text(s) == [kind |-> "text", text |-> s]

Doc(v) == [kind |-> "doc", value |-> v]

\* json.loads(raw_content): the value of a JSON document, JSONDecodeError
\* for any other text.
JsonLoads(content) ==
    IF content.kind = "doc" THEN Return(content.value)
    ELSE Raise("JSONDecodeError", "Expecting value: line 1 column 1 (char 0)")

\* open(cache_path, "w+"): creates the file, or truncates it.
OpenTruncate(f) == File(Text(""))

\* fp.write(data) on a text file: accepts a str only.
TextIOWrite(f, data) ==
    IF data.t = "str"
    THEN [ok |-> TRUE, file |-> File(Text(f.content.text \o data.v))]
    ELSE [ok |-> FALSE, file |-> f,
          exc |-> Raise("TypeError", "write() argument must be str, not " \o data.t)]

\* What other programs may leave in the cache file.
ForeignContents ==
    { Text("not json"), Doc([foo |-> 1]) }

-----------------------------------------------------------------------------
(* The tracker's metadata.                                                 *)

ProductCatalog == <<[name |-> "SUSEConnect"], [name |-> "SLES"], [name |-> "openSUSE"]>>

FieldSet ==
    { [name |-> "bug_status", values |-> <<[name |-> "NEW"], [name |-> "RESOLVED"]>>],
      [name |-> "bug_status"],
      [name |-> "priority", values |-> <<[name |-> "P1"]>>],
      [name |-> "bug_severity", values |-> <<>>],
      [name |-> "resolution", values |-> <<[name |-> "FIXED"]>>] }

\* The answers getbugfields() may give: up to MaxFields fields.
FieldLists == UNION {[1..n -> FieldSet] : n \in 0..MaxFields}

ErrorMessages == {"connection refused"}

search_tips ==
    [ status |-> "Common values: NEW, ASSIGNED, RESOLVED, VERIFIED, CLOSED",
      priority |-> "Common values: P1 (highest) to P5 (lowest)",
      severity |-> "Common values: blocker, critical, major, normal, minor, trivial",
      wildcards |-> "Use * for wildcards in text searches",
      multiple_values |-> "Separate multiple values with commas" ]

\* The loop over bugfields: a later field of the same name overrides an
\* earlier one; a field without 'values' gives [].
RECURSIVE FieldValues(_, _, _)
FieldValues(bugfields, fieldName, acc) ==
    IF Len(bugfields) = 0 THEN acc
    ELSE FieldValues(Tail(bugfields), fieldName,
                     IF bugfields[1].name = fieldName
                     THEN Names(DictGet(bugfields[1], "values", <<>>))
                     ELSE acc)

\* fields = {...} as assembled from the two adapter answers.
AssembleFields(products, bugfields) ==
    [ products |-> Names(products),
      statuses |-> FieldValues(bugfields, "bug_status", <<>>),
      priorities |-> FieldValues(bugfields, "priority", <<>>),
      severities |-> FieldValues(bugfields, "bug_severity", <<>>),
      search_tips |-> search_tips ]

SearchOptionsError(msg) == [error |-> "Failed to get search options: " \o msg]

-----------------------------------------------------------------------------
(* get_search_options.                                                     *)

FailPoints == {"none", "getproducts", "getbugfields"}

\* A derivation that binds fields as it goes: the product names are already
\* in fields when getbugfields() raises.
DeriveOptionsProgressive(trk, failAt, msg) ==
    IF failAt = "getproducts"
    THEN [fields |-> EmptyDict, adapter |-> <<"getproducts">>,
          raised |-> TRUE, msg |-> msg]
    ELSE IF failAt = "getbugfields"
    THEN [fields |-> [products |-> Names(trk.products)],
          adapter |-> <<"getproducts", "getbugfields">>,
          raised |-> TRUE, msg |-> msg]
    ELSE [fields |-> AssembleFields(trk.products, trk.bugfields),
          adapter |-> <<"getproducts", "getbugfields">>,
          raised |-> FALSE, msg |-> ""]

\* The try body: getproducts(), getbugfields(), the loop, fields = {...}.
\* An adapter call that raises leaves fields as it was bound before: {}.
DeriveOptions(trk, failAt, msg) ==
    IF failAt = "getproducts"
    THEN [fields |-> EmptyDict, adapter |-> <<"getproducts">>,
          raised |-> TRUE, msg |-> msg]
    ELSE IF failAt = "getbugfields"
    THEN [fields |-> EmptyDict, adapter |-> <<"getproducts", "getbugfields">>,
          raised |-> TRUE, msg |-> msg]
    ELSE [fields |-> AssembleFields(trk.products, trk.bugfields),
          adapter |-> <<"getproducts", "getbugfields">>,
          raised |-> FALSE, msg |-> ""]

\* A finally block without the len(fields.keys()) > 0 guard.
PersistOptionsUnguarded(f, fields) ==
    LET w == TextIOWrite(OpenTruncate(f), [t |-> "dict", v |-> fields])
    IN  [opened |-> TRUE, ok |-> w.ok, file |-> w.file,
         exc |-> IF w.ok THEN Return(None) ELSE w.exc]

\* The finally block: if len(fields.keys()) > 0, open the file "w+" and
\* fp.write(fields).
PersistOptions(f, fields) ==
    IF DictLen(fields) > 0
    THEN LET w == TextIOWrite(OpenTruncate(f), [t |-> "dict", v |-> fields])
         IN  [opened |-> TRUE, ok |-> w.ok, file |-> w.file,
              exc |-> IF w.ok THEN Return(None) ELSE w.exc]
    ELSE [opened |-> FALSE, ok |-> TRUE, file |-> f, exc |-> Return(None)]

\* A read that accepts the parsed content only if it looks like SearchOptions.
ReadCacheValidated(f) ==
    LET p == JsonLoads(f.content)
    IN  IF Returned(p) /\ "products" \notin DOMAIN p.value
        THEN Raise("ValueError", "not a SearchOptions object")
        ELSE p

\* The if-branch: the file exists, fields = json.loads(fp.read()).
ReadCache(f) == JsonLoads(f.content)

\* No adapter answer was asked for.
NoTracker == [products |-> <<>>, bugfields |-> <<>>]

\* One call of get_search_options, as a record of what it did.
SearchOptionsCall(li, f, trk, failAt, msg) ==
    LET base == [called |-> TRUE, loggedIn |-> li, before |-> f, after |-> f,
                 adapter |-> <<>>, failAt |-> "none", asked |-> NoTracker,
                 fields |-> EmptyDict,
                 outcome |-> Raise("AssertionError", "")]
    IN  IF ~li THEN [base EXCEPT !.loggedIn = FALSE]
        ELSE IF f.exists
        THEN LET p == ReadCache(f)
             IN  IF Raised(p)
                 THEN [base EXCEPT !.outcome = p]
                 ELSE [base EXCEPT !.fields = p.value, !.outcome = Return(p.value)]
        ELSE LET d == DeriveOptions(trk, failAt, msg)
                 w == PersistOptions(f, d.fields)
             IN  [base EXCEPT
                    !.adapter = d.adapter,
                    !.failAt = failAt,
                    !.asked = trk,
                    !.fields = d.fields,
                    !.after = w.file,
                    !.outcome = IF ~w.ok THEN w.exc
                                ELSE IF d.raised
                                THEN Return(SearchOptionsError(d.msg))
                                ELSE Return(d.fields)]

NoCall == [called |-> FALSE]

NoRequest == [op |-> "none"]

NoResponse == [done |-> FALSE]

get_search_options ==
    \E failAt \in FailPoints, msg \in ErrorMessages :
        LET c == SearchOptionsCall(loggedIn, cache, tracker, failAt, msg)
        IN  /\ cache' = c.after
            /\ prev' = last
            /\ last' = c
            /\ UNCHANGED <<loggedIn, tracker, req, resp>>

(* The environment of the cache. *)

SessionChange ==
    /\ loggedIn' = ~loggedIn
    /\ UNCHANGED <<tracker, cache, last, prev, req, resp>>

ExternalWrite ==
    \E c \in ForeignContents :
        /\ cache' = File(c)
        /\ UNCHANGED <<loggedIn, tracker, last, prev, req, resp>>

ExternalDelete ==
    /\ cache.exists
    /\ cache' = Absent
    /\ UNCHANGED <<loggedIn, tracker, last, prev, req, resp>>

TrackerAddProduct ==
    /\ Len(tracker.products) < MaxProducts
    /\ Len(tracker.products) < Len(ProductCatalog)
    /\ tracker' = [tracker EXCEPT
                     !.products = Append(@, ProductCatalog[Len(@) + 1])]
    /\ UNCHANGED <<loggedIn, cache, last, prev, req, resp>>

TrackerDropProduct ==
    /\ Len(tracker.products) > 0
    /\ tracker' = [tracker EXCEPT !.products = SubSeq(@, 1, Len(@) - 1)]
    /\ UNCHANGED <<loggedIn, cache, last, prev, req, resp>>

InitCache ==
    /\ loggedIn = TRUE
    /\ tracker \in [products : {<<>>}, bugfields : FieldLists]
    /\ cache = Absent
    /\ last = NoCall
    /\ prev = NoCall
    /\ req = NoRequest
    /\ resp = NoResponse

NextCache ==
    \/ get_search_options
    \/ SessionChange
    \/ ExternalWrite
    \/ ExternalDelete
    \/ TrackerAddProduct
    \/ TrackerDropProduct

SpecCache == InitCache /\ [][NextCache]_vars

-----------------------------------------------------------------------------
(* convert_bug_to_dict, get_bug, query_bugs.                               *)

suse_default_query_params ==
    [ product |-> Str("SUSEConnect"), component |-> Str("General"),
      status |-> Str("NEW"), priority |-> Str("P2"), severity |-> Str("Medium"),
      assigned_to |-> Str(""), creator |-> Str(""), limit |-> 5, offset |-> 0 ]

\* The bugs the tracker holds, by id.  Bug 2 has no creator email.
GoodBug ==
    [ product |-> "SUSEConnect", id |-> 1, priority |-> "P2",
      creation_time |-> "20240101T00:00:00", status |-> "NEW",
      summary |-> "registration fails", severity |-> "Medium",
      cc |-> <<"qa@suse.com">>, creator_detail |-> [email |-> "dev@suse.com"],
      platform |-> "x86-64", keywords |-> <<"k1", "k2">>,
      component |-> "General", groups |-> <<>>,
      weburl |-> "https://bugzilla.suse.com/show_bug.cgi?id=1",
      is_confirmed |-> TRUE ]

BadBug ==
    [ GoodBug EXCEPT !.id = 2, !.creator_detail = [name |-> "dev"],
                     !.groups = <<"novellonly", "SUSE">>,
                     !.weburl = "https://bugzilla.suse.com/show_bug.cgi?id=2" ]

BugSet == {GoodBug, BadBug}

BugIds == {1, 2, 3}

\* The answers bzapi.query may give: up to MaxBugs bugs.
BugLists == UNION {[1..n -> BugSet] : n \in 0..MaxBugs}

convert_bug_to_dict(bug) ==
    IF "email" \notin DOMAIN bug.creator_detail
    THEN Raise("KeyError", "'email'")
    ELSE Return(
        [ product_name |-> bug.product,
          bug_id |-> bug.id,
          bug_priority |-> bug.priority,
          created |-> bug.creation_time,
          status |-> bug.status,
          summary |-> bug.summary,
          severity |-> bug.severity,
          bug_cc |-> bug.cc,
          creator |-> bug.creator_detail["email"],
          platform |-> bug.platform,
          keywords |-> Join(";", bug.keywords),
          component |-> bug.component,
          groups |-> Join(" ", bug.groups),
          weburl |-> bug.weburl,
          confirmed |-> bug.is_confirmed ])

\* The for loop of query_bugs: bug_list, or the first exception of the
\* normalizer.
RECURSIVE ConvertAll(_, _)
ConvertAll(bugs, bug_list) ==
    IF Len(bugs) = 0 THEN Return(bug_list)
    ELSE LET d == convert_bug_to_dict(bugs[1])
         IN  IF Raised(d) THEN d
             ELSE ConvertAll(Tail(bugs), Append(bug_list, d.value))

\* A filter tested with "is not None" instead of truthiness: an empty
\* string falls through to the default.
AddFilterNotNone(query_params, key, value, default) ==
    IF value # None
    THEN DictSet(query_params, key, PyOr(value, default))
    ELSE query_params

\* if value: query_params[key] = value or default
AddFilter(query_params, key, value, default) ==
    IF Truthy(value)
    THEN DictSet(query_params, key, PyOr(value, default))
    ELSE query_params

\* The cap the comment and the docstring speak of.
ClampLimit100(limit) == Min(limit, 100)

\* min(limit, 20)
ClampLimit(limit) == Min(limit, 20)

\* query_params as built from the arguments.
BuildQueryParams(a) ==
    LET q1 == AddFilter(EmptyDict, "product", a.product, Str("SUSEConnect"))
        q2 == AddFilter(q1, "component", a.component, Str("General"))
        q3 == AddFilter(q2, "status", a.status, Str("NEW"))
        q4 == AddFilter(q3, "priority", a.priority, Str("P2 - High"))
        q5 == AddFilter(q4, "severity", a.severity, Str("Medium"))
        q6 == AddFilter(q5, "assigned_to", a.assigned_to, Str(""))
        q7 == AddFilter(q6, "creator", a.creator, Str(""))
        q8 == DictSet(q7, "limit", ClampLimit(a.limit))
    IN  DictSet(q8, "offset", a.offset)

\* An error payload that keeps the keys of a result.
QueryErrorWithBugs(msg, query_params) ==
    [error |-> "Query failed: " \o msg, query_parameters |-> query_params,
     total_results |-> 0, bugs |-> <<>>]

QueryError(msg, query_params) ==
    [error |-> "Query failed: " \o msg, query_parameters |-> query_params]

QueryResult(bug_list, offset, query_params) ==
    [ total_results |-> Len(bug_list),
      offset |-> offset,
      limit |-> query_params["limit"],
      query_parameters |-> query_params,
      bugs |-> bug_list ]

\* A try block that ends after bzapi.query(params): the conversion loop runs
\* outside it.
ExecuteQueryConvertOutside(answer, offset, query_params) ==
    IF Raised(answer)
    THEN [stage |-> "query", cause |-> answer.msg,
          outcome |-> Return(QueryError(answer.msg, query_params))]
    ELSE LET c == ConvertAll(answer.value, <<>>)
         IN  IF Raised(c)
             THEN [stage |-> "convert", cause |-> c.msg, outcome |-> c]
             ELSE [stage |-> "ok", cause |-> "",
                   outcome |-> Return(QueryResult(c.value, offset, query_params))]

\* The try block of query_bugs: bzapi.query(params), the conversion loop,
\* the result; except Exception: the error payload.
ExecuteQuery(answer, offset, query_params) ==
    IF Raised(answer)
    THEN [stage |-> "query", cause |-> answer.msg,
          outcome |-> Return(QueryError(answer.msg, query_params))]
    ELSE LET c == ConvertAll(answer.value, <<>>)
         IN  IF Raised(c)
             THEN [stage |-> "convert", cause |-> c.msg,
                   outcome |-> Return(QueryError(c.msg, query_params))]
             ELSE [stage |-> "ok", cause |-> "",
                   outcome |-> Return(QueryResult(c.value, offset, query_params))]

\* One call of query_bugs.  build is what bzapi.build_query does, answer
\* what bzapi.query does.
QueryBugsCall(li, a, build, answer) ==
    IF ~li
    THEN [done |-> TRUE, stage |-> "assert", cause |-> "",
          query_params |-> EmptyDict, outcome |-> Raise("AssertionError", "")]
    ELSE LET query_params == BuildQueryParams(a)
         IN  IF Raised(build)
             THEN [done |-> TRUE, stage |-> "build_query", cause |-> build.msg,
                   query_params |-> query_params, outcome |-> build]
             ELSE LET x == ExecuteQuery(answer, a.offset, query_params)
                  IN  [done |-> TRUE, stage |-> x.stage, cause |-> x.cause,
                       query_params |-> query_params, outcome |-> x.outcome]

\* One call of get_bug.  answer is what bzapi.getbug does.
GetBugCall(li, answer) ==
    IF ~li
    THEN [done |-> TRUE, stage |-> "assert", cause |-> "",
          query_params |-> EmptyDict, outcome |-> Raise("AssertionError", "")]
    ELSE IF Raised(answer)
    THEN [done |-> TRUE, stage |-> "getbug", cause |-> answer.msg,
          query_params |-> EmptyDict, outcome |-> answer]
    ELSE LET d == convert_bug_to_dict(answer.value)
         IN  [done |-> TRUE, stage |-> IF Raised(d) THEN "convert" ELSE "ok",
              cause |-> IF Raised(d) THEN d.msg ELSE "",
              query_params |-> EmptyDict, outcome |-> d]

\* bzapi.getbug(bug_id): the bug of that id, or a fault.
GetBugAnswers(bug_id) ==
    {Raise("Fault", m) : m \in ErrorMessages}
        \cup {Return(b) : b \in {x \in BugSet : x.id = bug_id}}

QueryFaults == {"connection refused", "The requested product does not exist"}

QueryAnswers ==
    {Raise("Fault", m) : m \in QueryFaults} \cup {Return(l) : l \in BugLists}

BuildAnswers ==
    {Raise("ValueError", m) : m \in {"bad query"}} \cup {Return(None)}

\* What a caller may pass for a filter: nothing, "", or a value.
FilterValues(v) == {None, Str(""), Str(v)}

Limits == {-1, 5, 20, 21, 1000}

Offsets == {0, 40}

QueryRequests ==
    [ op : {"query_bugs"},
      product : FilterValues("SLES"), component : FilterValues("General"),
      status : FilterValues("RESOLVED"), priority : FilterValues("P2 - High"),
      severity : FilterValues("critical"),
      assigned_to : FilterValues("dev@suse.com"),
      creator : FilterValues("qa@suse.com"),
      limit : Limits, offset : Offsets ]

BugRequests == [op : {"get_bug"}, bug_id : BugIds]

query_bugs ==
    /\ req.op = "query_bugs"
    /\ ~resp.done
    /\ \E build \in BuildAnswers, answer \in QueryAnswers :
           resp' = QueryBugsCall(loggedIn, req, build, answer)
    /\ UNCHANGED <<loggedIn, tracker, cache, last, prev, req>>

get_bug ==
    /\ req.op = "get_bug"
    /\ ~resp.done
    /\ \E answer \in GetBugAnswers(req.bug_id) :
           resp' = GetBugCall(loggedIn, answer)
    /\ UNCHANGED <<loggedIn, tracker, cache, last, prev, req>>

InitQuery ==
    /\ loggedIn \in BOOLEAN
    /\ tracker = [products |-> <<>>, bugfields |-> <<>>]
    /\ cache = Absent
    /\ last = NoCall
    /\ prev = NoCall
    /\ req \in QueryRequests \cup BugRequests
    /\ resp = NoResponse

NextQuery ==
    \/ query_bugs
    \/ get_bug

SpecQuery == InitQuery /\ [][NextQuery]_vars

-----------------------------------------------------------------------------
(* Properties of the search-options cache, under SpecCache.                *)

BothAsked == <<"getproducts", "getbugfields">>

\* products, statuses, priorities and severities of a fields object are all
\* empty (a missing key counts as empty).
AllSequencesEmpty(fields) ==
    \A k \in {"products", "statuses", "priorities", "severities"} :
        DictGet(fields, k, <<>>) = <<>>

\* The call found a cache file holding a JSON document.
FoundDocument(c) == c.called /\ c.before.exists /\ c.before.content.kind = "doc"

\* The call changed the cache file: created it or wrote it.
TouchedFile(c) == c.called /\ c.after # c.before

\* prev and last are two calls in a row, the first finding no cache file
\* and a tracker that answers, both with the adapter logged in.
TwoCallsFromNoCache ==
    /\ prev.called
    /\ last.called
    /\ prev.loggedIn
    /\ last.loggedIn
    /\ ~prev.before.exists
    /\ prev.failAt = "none"
    /\ last.before = prev.after

\* C1: cache idempotence.  Of two calls in a row starting without a cache
\* file, only the first asks the adapter (getproducts, getbugfields), the
\* cache file holds the serialized SearchOptions after the first call, and
\* the second call returns the same content as the first.
C1_CacheIdempotence ==
    TwoCallsFromNoCache =>
        /\ prev.adapter = BothAsked
        /\ last.adapter = <<>>
        /\ prev.after = File(Doc(prev.fields))
        /\ prev.outcome = Return(prev.fields)
        /\ last.outcome = prev.outcome

\* C2: every get_search_options call returns, for any cache file and any
\* tracker behaviour, either the SearchOptions object or the payload
\* {error: "Failed to get search options: <cause>"}; it never raises.
C2_NeverRaises ==
    last.called =>
        /\ Returned(last.outcome)
        /\ \/ last.outcome.value = last.fields
           \/ \E m \in ErrorMessages : last.outcome.value = SearchOptionsError(m)

C8_EmptyNeverPersisted ==
    TouchedFile(last) => ~AllSequencesEmpty(last.fields)

\* C8 amended: the cache file is never created or written from an object
\* that has no keys, which is what fields is whenever the tracker failed
\* or was never asked; an assembled object is handed to the persistence
\* step even if all its sequences are empty.
C8_UnassembledNeverPersisted ==
    /\ TouchedFile(last) => DictLen(last.fields) > 0
    /\ (last.called /\ last.failAt # "none") =>
          /\ last.fields = EmptyDict
          /\ last.after = last.before
    /\ (last.called /\ last.failAt = "none" /\ last.adapter = BothAsked) =>
          TouchedFile(last)

\* The tracker failed, and the call left the absent cache file absent.
C8_Witness ==
    /\ last.called
    /\ last.failAt = "getbugfields"
    /\ last.fields = EmptyDict
    /\ ~last.before.exists
    /\ ~cache.exists
    /\ prev.called
    /\ TouchedFile(prev)
    /\ AllSequencesEmpty(prev.fields)

\* C10: a tracker failure is not cached.  When no cache file exists and
\* getproducts or getbugfields raises, the call returns the error payload
\* and neither creates nor writes the cache file; the next call that finds
\* no cache file asks the tracker again, and if the tracker then answers,
\* fields is derived from the answers of that moment.
C10_FailureNotCached ==
    /\ (last.called /\ last.failAt # "none") =>
          /\ \E m \in ErrorMessages : last.outcome = Return(SearchOptionsError(m))
          /\ ~last.before.exists
          /\ ~last.after.exists
          /\ last.fields = EmptyDict
    /\ (/\ prev.called /\ prev.failAt # "none"
        /\ last.called /\ last.loggedIn /\ ~last.before.exists) =>
          /\ last.adapter # <<>>
          /\ last.adapter[1] = "getproducts"
          /\ last.failAt = "none" =>
                /\ last.adapter = BothAsked
                /\ last.fields =
                       AssembleFields(last.asked.products, last.asked.bugfields)

\* A failed call followed by a call that derived fields from a tracker
\* whose product list grew in between.
C10_Witness ==
    /\ prev.called /\ prev.failAt = "getproducts"
    /\ prev.asked.products = <<>>
    /\ last.called /\ last.failAt = "none" /\ last.adapter = BothAsked
    /\ last.asked.products # <<>>
    /\ last.fields.products = Names(tracker.products)
    /\ Len(last.fields.products) > 0

-----------------------------------------------------------------------------
(* Properties of query_bugs and get_bug, under SpecQuery.                  *)

FilterKeys ==
    {"product", "component", "status", "priority", "severity",
     "assigned_to", "creator"}

\* query_bugs ran and got past the login assertion, so query_params exists.
Assembled == resp.done /\ req.op = "query_bugs" /\ resp.stage # "assert"

\* C3: query_bugs never propagates a failure of build_query or of query; it
\* returns {error: "Query failed: <cause>", query_parameters: <assembled>}.
C3_NeverPropagates ==
    (Assembled /\ resp.stage \in {"build_query", "query"}) =>
        resp.outcome = Return(QueryError(resp.cause, resp.query_params))

\* C4: whenever bzapi.query raises, the response has exactly the keys error
\* and query_parameters, error is "Query failed: " followed by the failure
\* message, and query_parameters is the assembled parameter set.
C4_ErrorShape ==
    (Assembled /\ resp.stage = "query") =>
        /\ Returned(resp.outcome)
        /\ DOMAIN resp.outcome.value = {"error", "query_parameters"}
        /\ resp.outcome.value.error = "Query failed: " \o resp.cause
        /\ resp.outcome.value.query_parameters = resp.query_params
        /\ DOMAIN resp.outcome.value
              \cap {"bugs", "total_results", "offset", "limit"} = {}

\* bzapi.query raised the product fault for a call with two filters.
C4_Witness ==
    /\ Assembled
    /\ resp.stage = "query"
    /\ resp.cause = "The requested product does not exist"
    /\ Truthy(req.product)
    /\ Truthy(req.creator)
    /\ resp.outcome.value.query_parameters["product"] = req.product

C6_OmissionRule ==
    Assembled =>
        /\ \A k \in FilterKeys :
              /\ k \in DOMAIN resp.query_params <=> Truthy(req[k])
              /\ k \in DOMAIN resp.query_params => resp.query_params[k] = req[k]
        /\ (\A k \in FilterKeys : req[k] = None) =>
              DOMAIN resp.query_params = {"limit", "offset"}
        /\ {"limit", "offset"} \subseteq DOMAIN resp.query_params

\* A call with an empty product, no creator and a status: only status is
\* kept, though the defaults name a product.
C6_Witness ==
    /\ Assembled
    /\ req.product = Str("")
    /\ req.creator = None
    /\ req.status = Str("RESOLVED")
    /\ req.component = None /\ req.priority = None
    /\ req.severity = None /\ req.assigned_to = None
    /\ DOMAIN resp.query_params = {"status", "limit", "offset"}
    /\ resp.query_params["status"] = Str("RESOLVED")
    /\ suse_default_query_params.product = Str("SUSEConnect")

\* C9 as stated: in get_bug and query_bugs alike, a failure raised by
\* convert_bug_to_dict reaches the caller as a raised error.
C9_NormalizerPropagates ==
    (resp.done /\ resp.stage = "convert") => Raised(resp.outcome)

\* C9 amended: a missing-field failure of convert_bug_to_dict propagates to
\* the caller of get_bug; in query_bugs it is caught by the handler around
\* the query and returned as {error: "Query failed: <cause>",
\* query_parameters}.
C9_NormalizerByOperation ==
    (resp.done /\ resp.stage = "convert") =>
        /\ req.op = "get_bug" => resp.outcome = Raise("KeyError", "'email'")
        /\ req.op = "query_bugs" =>
              resp.outcome =
                  Return([error |-> "Query failed: 'email'",
                          query_parameters |-> resp.query_params])

\* query_bugs got a bug without creator email from the tracker.
C9_Witness ==
    /\ resp.done
    /\ req.op = "query_bugs"
    /\ resp.stage = "convert"
    /\ Returned(resp.outcome)
    /\ "error" \in DOMAIN resp.outcome.value

====
